---- MODULE Spec2Model ----
(***************************************************************************)
(* Model of the two fan-out pipelines of the repository:                   *)
(*   src/src/collector.py  search_youtube_query, run_collection_pipeline   *)
(*   src/src/analyzer.py   analyze_single_video, run_analysis_pipeline     *)
(* SpecCollect is the collection run, SpecAnalyze the analysis run.        *)
(***************************************************************************)
EXTENDS Integers, Sequences, FiniteSets, TLC

(***************************************************************************)
(* Bounds of the model.                                                    *)
(***************************************************************************)
\* config.MAX_VIDEOS_PER_QUERY ranges over 0..MaxN
MaxN == 2
\* a search response carries 0..MaxPageItems items
MaxPageItems == 2

\* config.SEARCH_QUERIES (two of them)
SEARCH_QUERIES == {"q1", "q2"}
\* ids, titles and dates the search API may answer with
VideoIds == {"v1", "v2"}
Dates == {"2025-01-01T00:00:00Z", "2025-06-30T12:00:00Z"}
\* the title the search for q answers with: the same video may come back
\* from two queries as two different records
TitleFor(q) == <<"title seen by", q>>

Min(a, b) == IF a < b THEN a ELSE b
Max(a, b) == IF a > b THEN a ELSE b

(***************************************************************************)
(* The search API's answers.  An item is well formed (it has id.videoId,   *)
(* snippet.title, snippet.publishedAt) or lacks a key the mapping reads.   *)
(***************************************************************************)
Malformed == [videoId |-> "?", title |-> "?", publishedAt |-> "?", ok |-> FALSE]
\* what the search finds for a query: for q1 one video under either date (a
\* list may hold two different records of one id), for q2 both videos
Found(q) ==
    IF q = "q1" THEN {"v1"} \X Dates
                ELSE VideoIds \X {"2025-01-01T00:00:00Z"}
Items(q) ==
    {[videoId |-> f[1], title |-> TitleFor(q), publishedAt |-> f[2], ok |-> TRUE] :
        f \in Found(q)} \cup {Malformed}
SeqsUpTo(S, n) == UNION {[1..k -> S] : k \in 0..n}
\* response.get('items', []) and response.get('nextPageToken')
Responses(q) ==
    [items : SeqsUpTo(Items(q), MaxPageItems), nextPageToken : {"", "tok"}]

\* collector.py lines 48-53: the record built from one item
video_data(item) ==
    [video_id     |-> item.videoId,
     url          |-> <<"https://www.youtube.com/watch?v=", item.videoId>>,
     title        |-> item.title,
     publish_date |-> item.publishedAt]

\* collector.py line 36
PageLimit == 50
\* a faulty variant: the page size ignores what is already accumulated
MutFetchWholeTarget(max_results, n) == Min(PageLimit, max_results)
fetch_count(max_results, n) == Min(PageLimit, max_results - n)

\* collector.py lines 47-54: the for loop over one page; it raises at the first
\* item that lacks a key, else appends every item of the page
RECURSIVE MapItems(_)
MapItems(items) ==
    IF items = <<>> THEN <<>>
    ELSE <<video_data(Head(items))>> \o MapItems(Tail(items))
PageRaises(items) == \E i \in DOMAIN items : ~items[i].ok
AppendPage(videos, items) == videos \o MapItems(items)

\* two faulty variants of Insert: without the membership test, and one that
\* keeps only the first record ever seen
MutInsertAlways(map, v) == Append(map, v)
MutInsertFirstOnly(map, v) == IF map = <<>> THEN Append(map, v) ELSE map
\* a third faulty variant: the record seen last replaces the one kept
MutInsertLastWins(map, v) ==
    IF \E i \in DOMAIN map : map[i].video_id = v.video_id
    THEN [i \in DOMAIN map |->
            IF map[i].video_id = v.video_id THEN v ELSE map[i]]
    ELSE Append(map, v)
\* collector.py lines 88-91: check-then-insert of one record
Insert(map, v) ==
    IF \E i \in DOMAIN map : map[i].video_id = v.video_id
    THEN map
    ELSE Append(map, v)

\* collector.py lines 88-91: the for loop over one future's result
RECURSIVE MergeVideos(_, _)
MergeVideos(map, vs) ==
    IF vs = <<>> THEN map
    ELSE MergeVideos(Insert(map, Head(vs)), Tail(vs))

VARIABLES
    \* ---- collection run ----
    max_results,      \* config.MAX_VIDEOS_PER_QUERY
    qpc,              \* per query: the worker's position in search_youtube_query
    videos,           \* per query: the local list videos
    next_page_token,  \* per query: the local next_page_token ("" is None)
    requested,        \* per query: maxResults of the last request, 0: none yet
    fut,              \* per query: the future's outcome
    failed,           \* per query: the except clause of lines 63-65 ran (history)
    cpc,              \* position of run_collection_pipeline
    processed,        \* futures as_completed has yielded, in order
    all_videos_map,   \* the dict, as its values in insertion order
    collected         \* the list run_collection_pipeline returned

VARIABLES
    \* ---- analysis run ----
    video_list,       \* the argument of run_analysis_pipeline
    gemini_key,       \* config.GEMINI_API_KEY is set
    tpc,              \* per submitted record: position in analyze_single_video
    attempt,          \* per record: the loop variable attempt
    calls,            \* per record: remote calls issued (history)
    throttled,        \* per record: attempts that ended in the backoff sleep (history)
    fatal_seen,       \* per record: an attempt failed otherwise than by a
                      \*   throttling signal of the remote call (history)
    waits,            \* per record: the backoff waits performed (history)
    ai_result,        \* per record: the mapping json.loads returned, if any
    outcome,          \* per record: what analyze_single_video returned or raised
    sleep_left,       \* per record: what is left of its time.sleep
    call_age,         \* per record: how long its remote call has been in flight, 0: none
    since_call_end,   \* time since the latest remote call of the batch ended,
                      \*   read up to DELAY_SECONDS, -1: no call ended yet
    pace_gap,         \* time between the end of the batch's latest remote call
                      \*   and the first remote call of the record sent last,
                      \*   -1: no call preceded it (history)
    apc,              \* position of run_analysis_pipeline
    yielded,          \* futures as_completed has yielded
    results,          \* the list results
    main_left,        \* what is left of the pipeline's time.sleep
    elapsed           \* time since run_analysis_pipeline was called, read up
                      \*   to Horizon

avars == <<video_list, gemini_key, tpc, attempt, calls, throttled,
           fatal_seen, waits, ai_result, outcome, sleep_left, call_age, since_call_end,
           pace_gap, apc, yielded, results, main_left, elapsed>>

cvars == <<max_results, qpc, videos, next_page_token, requested, fut, failed,
           cpc, processed, all_videos_map, collected>>

VARIABLES
    \* ---- one call search_youtube_query(query, max_results), its records
    \* ---- counted ----
    sq_max_results,   \* the argument max_results
    sq_len,           \* len(videos)
    sq_fetch_count,   \* maxResults of the request sent last, 0: none sent
    sq_pc,            \* position in search_youtube_query
    sq_ret            \* what the call returned: "list" (of sq_len records),
                      \*   "set" (the empty set), "raised", or "none" so far

svars == <<sq_max_results, sq_len, sq_fetch_count, sq_pc, sq_ret>>

vars == <<cvars, avars, svars>>

(***************************************************************************)
(* search_youtube_query, one worker per query                              *)
(***************************************************************************)
Pending  == [kind |-> "pending", items |-> <<>>]
RetList(vs) == [kind |-> "list", items |-> vs]
RetEmptySet == [kind |-> "set", items |-> <<>>]
Raised   == [kind |-> "exc", items |-> <<>>]

\* a faulty variant of OnException: the partial list is returned
MutOnExceptionPartial(vs) == RetList(vs)
\* lines 63-65: what the except clause returns, given the records accumulated
OnException(vs) == RetEmptySet

CollectInit ==
    /\ max_results \in 0..MaxN
    /\ qpc = [q \in SEARCH_QUERIES |-> "build"]
    /\ videos = [q \in SEARCH_QUERIES |-> <<>>]
    /\ next_page_token = [q \in SEARCH_QUERIES |-> ""]
    /\ requested = [q \in SEARCH_QUERIES |-> 0]
    /\ fut = [q \in SEARCH_QUERIES |-> Pending]
    /\ failed = [q \in SEARCH_QUERIES |-> FALSE]
    /\ cpc = "as_completed"
    /\ processed = <<>>
    /\ all_videos_map = <<>>
    /\ collected = <<>>

\* line 28: build(...) returns the client
Build(q) ==
    /\ qpc[q] = "build"
    /\ qpc' = [qpc EXCEPT ![q] = "while"]
    /\ UNCHANGED <<max_results, failed, videos, next_page_token, requested,
                   fut, cpc, processed, all_videos_map, collected, avars, svars>>

\* line 28: build(...) raises; it is outside the try, the future holds the exception
BuildRaises(q) ==
    /\ qpc[q] = "build"
    /\ qpc' = [qpc EXCEPT ![q] = "raised"]
    /\ fut' = [fut EXCEPT ![q] = Raised]
    /\ UNCHANGED <<max_results, failed, videos, next_page_token, requested,
                   cpc, processed, all_videos_map, collected, avars, svars>>

\* lines 35-58: one iteration of the while loop whose request is answered
PageOk(q) ==
    /\ qpc[q] = "while"
    /\ Len(videos[q]) < max_results
    /\ \E response \in Responses(q) :
        /\ ~PageRaises(response.items)
        /\ requested' = [requested EXCEPT
                ![q] = fetch_count(max_results, Len(videos[q]))]
        /\ videos' = [videos EXCEPT ![q] = AppendPage(@, response.items)]
        /\ next_page_token' = [next_page_token EXCEPT ![q] = response.nextPageToken]
        /\ qpc' = [qpc EXCEPT
                ![q] = IF response.nextPageToken = "" THEN "return" ELSE "while"]
    /\ UNCHANGED <<max_results, failed, fut, cpc, processed, all_videos_map, collected, avars, svars>>

\* lines 45, 63-65: request.execute() raises; except returns set()
ExecuteRaises(q) ==
    /\ qpc[q] = "while"
    /\ Len(videos[q]) < max_results
    /\ requested' = [requested EXCEPT
            ![q] = fetch_count(max_results, Len(videos[q]))]
    /\ qpc' = [qpc EXCEPT ![q] = "done"]
    /\ fut' = [fut EXCEPT ![q] = OnException(videos[q])]
    /\ failed' = [failed EXCEPT ![q] = TRUE]
    /\ UNCHANGED <<max_results, videos, next_page_token,
                   cpc, processed, all_videos_map, collected, avars, svars>>

\* lines 47-54, 63-65: an item of the page lacks a key; except returns set()
\* (the items appended before it are lost with the local list)
MappingRaises(q) ==
    /\ qpc[q] = "while"
    /\ Len(videos[q]) < max_results
    /\ \E response \in Responses(q) :
        /\ PageRaises(response.items)
        /\ requested' = [requested EXCEPT
                ![q] = fetch_count(max_results, Len(videos[q]))]
    /\ qpc' = [qpc EXCEPT ![q] = "done"]
    /\ fut' = [fut EXCEPT ![q] = OnException(videos[q])]
    /\ failed' = [failed EXCEPT ![q] = TRUE]
    /\ UNCHANGED <<max_results, videos, next_page_token,
                   cpc, processed, all_videos_map, collected, avars, svars>>

\* a faulty variant of ReturnVideos: the worker inserts its records into the
\* pipeline's mapping itself before it returns them
MutReturnAndInsert(q) ==
    /\ \/ qpc[q] = "return"
       \/ qpc[q] = "while" /\ ~(Len(videos[q]) < max_results)
    /\ qpc' = [qpc EXCEPT ![q] = "done"]
    /\ fut' = [fut EXCEPT ![q] = RetList(videos[q])]
    /\ all_videos_map' = MergeVideos(all_videos_map, videos[q])
    /\ UNCHANGED <<max_results, failed, videos, next_page_token, requested,
                   cpc, processed, collected, avars, svars>>
\* lines 35, 57-61: the loop ends (condition false, or break) and videos is returned
ReturnVideos(q) ==
    /\ \/ qpc[q] = "return"
       \/ qpc[q] = "while" /\ ~(Len(videos[q]) < max_results)
    /\ qpc' = [qpc EXCEPT ![q] = "done"]
    /\ fut' = [fut EXCEPT ![q] = RetList(videos[q])]
    /\ UNCHANGED <<max_results, failed, videos, next_page_token, requested,
                   cpc, processed, all_videos_map, collected, avars, svars>>

(***************************************************************************)
(* run_collection_pipeline                                                 *)
(***************************************************************************)
InProcessed(q) == \E i \in DOMAIN processed : processed[i] = q

\* lines 86-91: as_completed yields a finished future, its records are merged
MergeFuture(q) ==
    /\ cpc = "as_completed"
    /\ ~InProcessed(q)
    /\ fut[q].kind \in {"list", "set"}
    /\ all_videos_map' = MergeVideos(all_videos_map, fut[q].items)
    /\ processed' = Append(processed, q)
    /\ UNCHANGED <<max_results, failed, qpc, videos, next_page_token, requested,
                   fut, cpc, collected, avars, svars>>

\* line 87: future.result() re-raises the worker's exception; the with block
\* is left through the executor's shutdown
ResultRaises(q) ==
    /\ cpc = "as_completed"
    /\ ~InProcessed(q)
    /\ fut[q].kind = "exc"
    /\ cpc' = "shutdown"
    /\ processed' = Append(processed, q)
    /\ UNCHANGED <<max_results, failed, qpc, videos, next_page_token, requested,
                   fut, all_videos_map, collected, avars, svars>>

\* line 80: the executor's __exit__ waits for every worker, then the
\* exception leaves run_collection_pipeline
CollectRaise ==
    /\ cpc = "shutdown"
    /\ \A q \in SEARCH_QUERIES : fut[q].kind # "pending"
    /\ cpc' = "raised"
    /\ UNCHANGED <<max_results, failed, qpc, videos, next_page_token, requested,
                   fut, processed, all_videos_map, collected, avars, svars>>

\* line 93: every future was yielded; the values of the dict are returned
CollectReturn ==
    /\ cpc = "as_completed"
    /\ \A q \in SEARCH_QUERIES : InProcessed(q)
    /\ cpc' = "returned"
    /\ collected' = all_videos_map
    /\ UNCHANGED <<max_results, failed, qpc, videos, next_page_token, requested,
                   fut, processed, all_videos_map, avars, svars>>

CollectNext ==
    \/ \E q \in SEARCH_QUERIES : Build(q)
    \/ \E q \in SEARCH_QUERIES : BuildRaises(q)
    \/ \E q \in SEARCH_QUERIES : PageOk(q)
    \/ \E q \in SEARCH_QUERIES : ExecuteRaises(q)
    \/ \E q \in SEARCH_QUERIES : MappingRaises(q)
    \/ \E q \in SEARCH_QUERIES : ReturnVideos(q)
    \/ \E q \in SEARCH_QUERIES : MergeFuture(q)
    \/ \E q \in SEARCH_QUERIES : ResultRaises(q)
    \/ CollectRaise
    \/ CollectReturn

(***************************************************************************)
(* search_youtube_query called on its own with any max_results; a page is  *)
(* the number of its items, so that targets above the page limit are run   *)
(***************************************************************************)
\* max_results is -1..MaxResults
MaxResults == 52

SearchInit ==
    /\ sq_max_results \in -1..MaxResults
    /\ sq_len = 0
    /\ sq_fetch_count = 0
    /\ sq_pc = "build"
    /\ sq_ret = "none"

\* lines 28-32
SearchBuild ==
    /\ sq_pc = "build"
    /\ sq_pc' = "while"
    /\ UNCHANGED <<sq_max_results, sq_len, sq_fetch_count, sq_ret, cvars, avars>>

\* line 28: build raises, outside the try
SearchBuildRaises ==
    /\ sq_pc = "build"
    /\ sq_pc' = "done"
    /\ sq_ret' = "raised"
    /\ UNCHANGED <<sq_max_results, sq_len, sq_fetch_count, cvars, avars>>

\* lines 35-44: the loop condition holds; the request for one page is built
SearchRequest ==
    /\ sq_pc = "while"
    /\ sq_len < sq_max_results
    /\ sq_fetch_count' = fetch_count(sq_max_results, sq_len)
    /\ sq_pc' = "execute"
    /\ UNCHANGED <<sq_max_results, sq_len, sq_ret, cvars, avars>>

\* lines 45-58: the page arrives with k items (the API is not held to
\* maxResults), with or without a nextPageToken
SearchPage ==
    /\ sq_pc = "execute"
    /\ \E k \in 0..(sq_fetch_count + 1), more \in BOOLEAN :
        /\ sq_len' = sq_len + k
        /\ sq_pc' = IF more THEN "while" ELSE "return"
    /\ UNCHANGED <<sq_max_results, sq_fetch_count, sq_ret, cvars, avars>>

\* lines 45-54, 63-65: execute() or the item mapping raises; set() is returned
SearchRaises ==
    /\ sq_pc = "execute"
    /\ sq_pc' = "done"
    /\ sq_ret' = "set"
    /\ UNCHANGED <<sq_max_results, sq_len, sq_fetch_count, cvars, avars>>

\* lines 35, 57-61: the loop ends (condition false, or break); videos is returned
SearchReturn ==
    /\ \/ sq_pc = "return"
       \/ sq_pc = "while" /\ ~(sq_len < sq_max_results)
    /\ sq_pc' = "done"
    /\ sq_ret' = "list"
    /\ UNCHANGED <<sq_max_results, sq_len, sq_fetch_count, cvars, avars>>

SearchNext ==
    \/ SearchBuild
    \/ SearchBuildRaises
    \/ SearchRequest
    \/ SearchPage
    \/ SearchRaises
    \/ SearchReturn

(***************************************************************************)
(* analyzer.py: bounds, constants and the values that travel               *)
(***************************************************************************)
\* video_list has 0..MaxVideos records
MaxVideos == 2
\* the clock advances in steps of TickStep seconds
TickStep == 10
\* a remote call returns within MaxLatency seconds
MaxLatency == 10

\* a faulty variant of max_retries: one attempt too many
MutMaxRetries == 3 + 1
\* analyzer.py lines 32-33, config.py lines 45-46
max_retries == 3
base_wait_time == 30
MAX_WORKERS_ANALYSIS == 1
DELAY_SECONDS == 10
\* the clock of the run is read up to Horizon
Horizon == MaxVideos * DELAY_SECONDS + TickStep

\* the records run_analysis_pipeline may be handed: a collected record, one
\* without 'url', one without 'title'
CollectedRecord(id) ==
    video_data([videoId |-> id, title |-> TitleFor("q1"),
                publishedAt |-> "2025-01-01T00:00:00Z", ok |-> TRUE])
Without(f, k) == [x \in DOMAIN f \ {k} |-> f[x]]
InputRecords ==
    { CollectedRecord("v1"),
      Without(CollectedRecord("v1"), "url"),
      Without(CollectedRecord("v2"), "title") }

\* what json.loads(response.text) may be: a mapping (one with a new key only,
\* one that collides with every key of the record) ...
EmptyMapping == [k \in {} |-> ""]
AiMappings ==
    { [topic |-> "Y"],
      [topic |-> "Y", foo |-> "baz", video_id |-> "ai", url |-> <<"ai", "url">>,
       title |-> <<"title by", "ai">>, publish_date |-> "ai" ] }

\* ... and str(e) of the exceptions of one attempt, as the words of the message
RemoteErrors ==
    { <<"429", "Too", "Many", "Requests">>,
      <<"Quota", "RESOURCE_EXHAUSTED">>,
      <<"404", "NOT_FOUND">> }
\* json.JSONDecodeError: "<what>: line L column C (char P)"
ParseErrors ==
    { <<"Expecting", "value:", "line", "1", "column", "1", "(char", "0", ")">>,
      <<"Expecting", "value:", "line", "1", "column", "430", "(char", "429", ")">> }
\* TypeError of ** on a JSON value that is no mapping; KeyError of ['title']
MergeError == <<"'list'", "object", "is", "not", "a", "mapping">>
TitleError == <<"'title'">>

\* the optional value analyze_single_video returns, and its exception
None == [kind |-> "none", rec |-> EmptyMapping]
Some(rec) == [kind |-> "rec", rec |-> rec]
Exc == [kind |-> "exc", rec |-> EmptyMapping]
NotYet == [kind |-> "pending", rec |-> EmptyMapping]

\* analyzer.py line 64: "429" in error_msg or "RESOURCE_EXHAUSTED" in error_msg
Contains(msg, word) == \E i \in DOMAIN msg : msg[i] = word
IsRateLimit(msg) == Contains(msg, "429") \/ Contains(msg, "RESOURCE_EXHAUSTED")

\* a backoff that waits the base time after every throttled attempt
MutWaitFlat(a) == base_wait_time
\* analyzer.py line 65
wait_time(a) == base_wait_time * (a + 1)

\* a faulty variant of final_record: the record's value wins on a common key
MutRecordWins(vd, ai) ==
    [k \in DOMAIN vd \cup DOMAIN ai |-> IF k \in DOMAIN vd THEN vd[k] ELSE ai[k]]
\* analyzer.py lines 53-56: {**video_data, **ai_result}
final_record(vd, ai) ==
    [k \in DOMAIN vd \cup DOMAIN ai |-> IF k \in DOMAIN ai THEN ai[k] ELSE vd[k]]

\* a merge that updates the input record in place
MutMergeInPlace(vd, ai) == final_record(vd, ai)
\* lines 53-56: {**video_data, **ai_result} builds a new dict; the record
\* of the input list is what it was
video_data_after(vd, ai) == vd

\* a faulty variant of Truthy: the test of line 93 is missing
MutTruthyAlways(data) == TRUE
\* analyzer.py line 93: if data
Truthy(data) == data.kind = "rec" /\ DOMAIN data.rec # {}

\* a pipeline that pauses only after a record that gave a result
MutPauseOnSuccessOnly(data) == IF Truthy(data) THEN DELAY_SECONDS ELSE 0
\* line 96: the pause after a future was handled, whatever its result was
pause_after(data) == DELAY_SECONDS

Tasks == DOMAIN video_list
Running == {i \in Tasks : tpc[i] \notin {"queued", "done"}}

AnalyzeInit ==
    /\ video_list \in SeqsUpTo(InputRecords, MaxVideos)
    /\ gemini_key \in BOOLEAN
    /\ tpc = [i \in Tasks |-> "queued"]
    /\ attempt = [i \in Tasks |-> 0]
    /\ calls = [i \in Tasks |-> 0]
    /\ throttled = [i \in Tasks |-> 0]
    /\ fatal_seen = [i \in Tasks |-> FALSE]
    /\ waits = [i \in Tasks |-> <<>>]
    /\ ai_result = [i \in Tasks |-> EmptyMapping]
    /\ outcome = [i \in Tasks |-> NotYet]
    /\ sleep_left = [i \in Tasks |-> 0]
    /\ call_age = [i \in Tasks |-> 0]
    /\ since_call_end = -1
    /\ pace_gap = -1
    /\ apc = "as_completed"
    /\ yielded = {}
    /\ results = <<>>
    /\ main_left = 0
    /\ elapsed = 0

(***************************************************************************)
(* analyze_single_video, run by a worker of the pool                       *)
(***************************************************************************)
\* a pool that starts a queued record whatever the number of busy workers
MutStartUnbounded(i) ==
    /\ i \in Tasks
    /\ tpc[i] = "queued"
    /\ \A j \in Tasks : j < i => tpc[j] # "queued"
\* the pool hands the oldest queued record to a free worker
MayStart(i) ==
    /\ i \in Tasks
    /\ tpc[i] = "queued"
    /\ \A j \in Tasks : j < i => tpc[j] # "queued"
    /\ Cardinality(Running) < MAX_WORKERS_ANALYSIS

\* lines 29-33: the client is built and the url read
StartTask(i) ==
    /\ MayStart(i)
    /\ gemini_key
    /\ "url" \in DOMAIN video_list[i]
    /\ tpc' = [tpc EXCEPT ![i] = "for"]
    /\ UNCHANGED <<video_list, gemini_key, attempt, calls, throttled,
                   fatal_seen, waits, ai_result, outcome, sleep_left, call_age,
                   since_call_end, pace_gap, apc, yielded, results, main_left, elapsed,
                   cvars, svars>>

\* line 29: genai.Client raises without an API key; nothing catches it
ClientRaises(i) ==
    /\ MayStart(i)
    /\ ~gemini_key
    /\ tpc' = [tpc EXCEPT ![i] = "done"]
    /\ outcome' = [outcome EXCEPT ![i] = Exc]
    /\ UNCHANGED <<video_list, gemini_key, attempt, calls, throttled,
                   fatal_seen, waits, ai_result, sleep_left, call_age,
                   since_call_end, pace_gap, apc, yielded, results, main_left, elapsed,
                   cvars, svars>>

\* line 30: video_data['url'] raises KeyError; nothing catches it
UrlRaises(i) ==
    /\ MayStart(i)
    /\ gemini_key
    /\ "url" \notin DOMAIN video_list[i]
    /\ tpc' = [tpc EXCEPT ![i] = "done"]
    /\ outcome' = [outcome EXCEPT ![i] = Exc]
    /\ UNCHANGED <<video_list, gemini_key, attempt, calls, throttled,
                   fatal_seen, waits, ai_result, sleep_left, call_age,
                   since_call_end, pace_gap, apc, yielded, results, main_left, elapsed,
                   cvars, svars>>

\* lines 61-71: the except clause, for the message msg of an exception that
\* came from origin ("remote": generate_content, else the code after it)
HandleException(i, msg, origin) ==
    /\ fatal_seen' = [fatal_seen EXCEPT
            ![i] = @ \/ origin # "remote" \/ ~IsRateLimit(msg)]
    /\ IF IsRateLimit(msg)
       THEN /\ tpc' = [tpc EXCEPT ![i] = "sleeping"]
            /\ sleep_left' = [sleep_left EXCEPT ![i] = wait_time(attempt[i])]
            /\ waits' = [waits EXCEPT ![i] = Append(@, wait_time(attempt[i]))]
            /\ throttled' = [throttled EXCEPT ![i] = @ + 1]
            /\ UNCHANGED outcome
       ELSE /\ tpc' = [tpc EXCEPT ![i] = "done"]
            /\ outcome' = [outcome EXCEPT ![i] = None]
            /\ UNCHANGED <<sleep_left, waits, throttled>>

\* line 35: range(max_retries) is exhausted; the function ends, returning None
LoopEnd(i) ==
    /\ i \in Tasks
    /\ tpc[i] = "for"
    /\ ~(attempt[i] < max_retries)
    /\ tpc' = [tpc EXCEPT ![i] = "done"]
    /\ outcome' = [outcome EXCEPT ![i] = None]
    /\ UNCHANGED <<video_list, gemini_key, attempt, calls, throttled,
                   fatal_seen, waits, ai_result, sleep_left, call_age,
                   since_call_end, pace_gap, apc, yielded, results, main_left, elapsed,
                   cvars, svars>>

\* line 47: video_data['title'] raises KeyError inside the try, before the call
TitleRaises(i) ==
    /\ i \in Tasks
    /\ tpc[i] = "for"
    /\ attempt[i] < max_retries
    /\ "title" \notin DOMAIN video_list[i]
    /\ HandleException(i, TitleError, "local")
    /\ UNCHANGED <<video_list, gemini_key, attempt, calls,
                   ai_result, call_age,
                   since_call_end, pace_gap, apc, yielded, results, main_left, elapsed,
                   cvars, svars>>

\* lines 39-49: generate_content is called
SendRequest(i) ==
    /\ i \in Tasks
    /\ tpc[i] = "for"
    /\ attempt[i] < max_retries
    /\ "title" \in DOMAIN video_list[i]
    /\ tpc' = [tpc EXCEPT ![i] = "calling"]
    /\ calls' = [calls EXCEPT ![i] = @ + 1]
    /\ call_age' = [call_age EXCEPT ![i] = 0]
    /\ pace_gap' = IF calls[i] = 0 THEN since_call_end ELSE pace_gap
    /\ UNCHANGED <<video_list, gemini_key, attempt, throttled,
                   fatal_seen, waits, ai_result, outcome, sleep_left,
                   since_call_end, apc, yielded, results, main_left, elapsed,
                   cvars, svars>>

\* lines 51-59: the response parses to a mapping; the merged record is returned
CallSucceeds(i) ==
    /\ i \in Tasks
    /\ tpc[i] = "calling"
    /\ \E ai \in AiMappings :
        /\ ai_result' = [ai_result EXCEPT ![i] = ai]
        /\ outcome' = [outcome EXCEPT ![i] = Some(final_record(video_list[i], ai))]
        /\ video_list' = [video_list EXCEPT ![i] = video_data_after(@, ai)]
    /\ tpc' = [tpc EXCEPT ![i] = "done"]
    /\ since_call_end' = 0
    /\ call_age' = [call_age EXCEPT ![i] = 0]
    /\ UNCHANGED <<gemini_key, attempt, calls, throttled,
                   fatal_seen, waits, sleep_left,
                   pace_gap, apc, yielded, results, main_left, elapsed,
                   cvars, svars>>

\* lines 39, 61-71: generate_content raises
CallRaises(i) ==
    /\ i \in Tasks
    /\ tpc[i] = "calling"
    /\ \E msg \in RemoteErrors : HandleException(i, msg, "remote")
    /\ since_call_end' = 0
    /\ call_age' = [call_age EXCEPT ![i] = 0]
    /\ UNCHANGED <<video_list, gemini_key, attempt, calls,
                   ai_result,
                   pace_gap, apc, yielded, results, main_left, elapsed,
                   cvars, svars>>

\* lines 51, 61-71: json.loads raises on the response's text
ParseRaises(i) ==
    /\ i \in Tasks
    /\ tpc[i] = "calling"
    /\ \E msg \in ParseErrors : HandleException(i, msg, "parse")
    /\ since_call_end' = 0
    /\ call_age' = [call_age EXCEPT ![i] = 0]
    /\ UNCHANGED <<video_list, gemini_key, attempt, calls,
                   ai_result,
                   pace_gap, apc, yielded, results, main_left, elapsed,
                   cvars, svars>>

\* lines 53-56, 61-71: the text is JSON but no mapping; ** raises TypeError
MergeRaises(i) ==
    /\ i \in Tasks
    /\ tpc[i] = "calling"
    /\ HandleException(i, MergeError, "merge")
    /\ since_call_end' = 0
    /\ call_age' = [call_age EXCEPT ![i] = 0]
    /\ UNCHANGED <<video_list, gemini_key, attempt, calls,
                   ai_result,
                   pace_gap, apc, yielded, results, main_left, elapsed,
                   cvars, svars>>

\* line 67: time.sleep(wait_time) is over; the for loop takes the next attempt
WakeTask(i) ==
    /\ i \in Tasks
    /\ tpc[i] = "sleeping"
    /\ sleep_left[i] = 0
    /\ tpc' = [tpc EXCEPT ![i] = "for"]
    /\ attempt' = [attempt EXCEPT ![i] = @ + 1]
    /\ UNCHANGED <<video_list, gemini_key, calls, throttled,
                   fatal_seen, waits, ai_result, outcome, sleep_left, call_age,
                   since_call_end, pace_gap, apc, yielded, results, main_left, elapsed,
                   cvars, svars>>

(***************************************************************************)
(* run_analysis_pipeline                                                   *)
(***************************************************************************)
\* lines 91-96: as_completed yields a finished future; its data is appended
\* when truthy, then the pipeline sleeps
YieldFuture(i) ==
    /\ apc = "as_completed"
    /\ i \in Tasks \ yielded
    /\ tpc[i] = "done"
    /\ outcome[i].kind # "exc"
    /\ results' = IF Truthy(outcome[i]) THEN Append(results, outcome[i]) ELSE results
    /\ yielded' = yielded \cup {i}
    /\ apc' = "sleep"
    /\ main_left' = pause_after(outcome[i])
    /\ UNCHANGED <<video_list, gemini_key, tpc, attempt, calls,
                   throttled, fatal_seen, waits, ai_result, outcome, sleep_left,
                   call_age, since_call_end, pace_gap, elapsed, cvars, svars>>

\* line 92: future.result() re-raises the worker's exception
YieldRaises(i) ==
    /\ apc = "as_completed"
    /\ i \in Tasks \ yielded
    /\ tpc[i] = "done"
    /\ outcome[i].kind = "exc"
    /\ yielded' = yielded \cup {i}
    /\ apc' = "shutdown"
    /\ UNCHANGED <<video_list, gemini_key, tpc, attempt, calls,
                   throttled, fatal_seen, waits, ai_result, outcome, sleep_left,
                   call_age, since_call_end, pace_gap, results, main_left, elapsed,
                   cvars, svars>>

\* line 96: time.sleep(config.DELAY_SECONDS) is over
MainWake ==
    /\ apc = "sleep"
    /\ main_left = 0
    /\ apc' = "as_completed"
    /\ UNCHANGED <<video_list, gemini_key, tpc, attempt, calls,
                   throttled, fatal_seen, waits, ai_result, outcome, sleep_left,
                   call_age, since_call_end, pace_gap, yielded, results,
                   main_left, elapsed, cvars, svars>>

\* line 98: every future was yielded; results is returned
AnalyzeReturn ==
    /\ apc = "as_completed"
    /\ yielded = Tasks
    /\ apc' = "returned"
    /\ UNCHANGED <<video_list, gemini_key, tpc, attempt, calls,
                   throttled, fatal_seen, waits, ai_result, outcome, sleep_left,
                   call_age, since_call_end, pace_gap, yielded, results,
                   main_left, elapsed, cvars, svars>>

\* line 88: the executor's __exit__ waits for every submitted record, then
\* the exception leaves run_analysis_pipeline
AnalyzeRaise ==
    /\ apc = "shutdown"
    /\ \A i \in Tasks : tpc[i] = "done"
    /\ apc' = "raised"
    /\ UNCHANGED <<video_list, gemini_key, tpc, attempt, calls,
                   throttled, fatal_seen, waits, ai_result, outcome, sleep_left,
                   call_age, since_call_end, pace_gap, yielded, results,
                   main_left, elapsed, cvars, svars>>

\* time passes while a thread is blocked in a sleep or in a remote call; a
\* sleeper resumes as soon as its time is up
Tick ==
    /\ \/ \E i \in Tasks : tpc[i] = "sleeping"
       \/ \E i \in Tasks : tpc[i] = "calling" /\ call_age[i] < MaxLatency
       \/ apc = "sleep"
    /\ \A i \in Tasks : tpc[i] = "sleeping" => sleep_left[i] > 0
    /\ apc = "sleep" => main_left > 0
    /\ sleep_left' = [i \in Tasks |-> Max(0, sleep_left[i] - TickStep)]
    /\ main_left' = Max(0, main_left - TickStep)
    /\ call_age' = [i \in Tasks |->
            IF tpc[i] = "calling" THEN call_age[i] + TickStep ELSE call_age[i]]
    /\ since_call_end' = IF since_call_end = -1 THEN -1
                         ELSE Min(DELAY_SECONDS, since_call_end + TickStep)
    /\ elapsed' = Min(Horizon, elapsed + TickStep)
    /\ UNCHANGED <<video_list, gemini_key, tpc, attempt, calls,
                   throttled, fatal_seen, waits, ai_result, outcome,
                   pace_gap, apc, yielded, results, cvars, svars>>

AnalyzeNext ==
    \/ \E i \in 1..MaxVideos : StartTask(i)
    \/ \E i \in 1..MaxVideos : ClientRaises(i)
    \/ \E i \in 1..MaxVideos : UrlRaises(i)
    \/ \E i \in 1..MaxVideos : LoopEnd(i)
    \/ \E i \in 1..MaxVideos : TitleRaises(i)
    \/ \E i \in 1..MaxVideos : SendRequest(i)
    \/ \E i \in 1..MaxVideos : CallSucceeds(i)
    \/ \E i \in 1..MaxVideos : CallRaises(i)
    \/ \E i \in 1..MaxVideos : ParseRaises(i)
    \/ \E i \in 1..MaxVideos : MergeRaises(i)
    \/ \E i \in 1..MaxVideos : WakeTask(i)
    \/ \E i \in 1..MaxVideos : YieldFuture(i)
    \/ \E i \in 1..MaxVideos : YieldRaises(i)
    \/ MainWake
    \/ AnalyzeReturn
    \/ AnalyzeRaise
    \/ Tick

(***************************************************************************)
(* The runs.  Each leaves the state of the others as constructed.          *)
(***************************************************************************)
CollectIdle ==
    /\ max_results = 0
    /\ qpc = [q \in SEARCH_QUERIES |-> "build"]
    /\ videos = [q \in SEARCH_QUERIES |-> <<>>]
    /\ next_page_token = [q \in SEARCH_QUERIES |-> ""]
    /\ requested = [q \in SEARCH_QUERIES |-> 0]
    /\ fut = [q \in SEARCH_QUERIES |-> Pending]
    /\ failed = [q \in SEARCH_QUERIES |-> FALSE]
    /\ cpc = "idle"
    /\ processed = <<>>
    /\ all_videos_map = <<>>
    /\ collected = <<>>

SearchIdle ==
    /\ sq_max_results = 0
    /\ sq_len = 0
    /\ sq_fetch_count = 0
    /\ sq_pc = "idle"
    /\ sq_ret = "none"

AnalyzeIdle ==
    /\ video_list = <<>>
    /\ gemini_key = TRUE
    /\ tpc = <<>>
    /\ attempt = <<>>
    /\ calls = <<>>
    /\ throttled = <<>>
    /\ fatal_seen = <<>>
    /\ waits = <<>>
    /\ ai_result = <<>>
    /\ outcome = <<>>
    /\ sleep_left = <<>>
    /\ call_age = <<>>
    /\ since_call_end = -1
    /\ pace_gap = -1
    /\ apc = "idle"
    /\ yielded = {}
    /\ results = <<>>
    /\ main_left = 0
    /\ elapsed = 0

(***************************************************************************)
(* Properties of the collection run (checked under SpecCollect)            *)
(***************************************************************************)
Ids(vs) == {vs[i].video_id : i \in DOMAIN vs}
NoTwoSameId(vs) ==
    \A i, j \in DOMAIN vs : i # j => vs[i].video_id # vs[j].video_id
Returned(q) == fut[q].kind = "list"

\* C1: whatever the queries answered and in whatever order their workers
\* completed, the list run_collection_pipeline returns (and the mapping it is
\* built in) holds no two records with the same video_id.
C1_UniqueIds ==
    /\ NoTwoSameId(all_videos_map)
    /\ cpc = "returned" => NoTwoSameId(collected)

\* C1's case: the pipeline returned, one id came back from both queries and
\* one query returned the same id twice
C1_Witness ==
    /\ cpc = "returned"
    /\ \E q1, q2 \in SEARCH_QUERIES :
        /\ q1 # q2
        /\ Returned(q1) /\ Returned(q2)
        /\ Ids(fut[q1].items) \cap Ids(fut[q2].items) # {}
        /\ ~NoTwoSameId(fut[q1].items)

\* C2: the ids of the returned list are exactly the ids returned by the
\* queries whose search completed without error.
C2_NoWorkLost ==
    cpc = "returned" =>
        Ids(collected) = UNION {Ids(fut[q].items) : q \in {x \in SEARCH_QUERIES : Returned(x)}}

\* C2's case: the pipeline returned the two ids of one query while the
\* other query failed
C2_Witness ==
    /\ cpc = "returned"
    /\ \E q1, q2 \in SEARCH_QUERIES :
        /\ failed[q1]
        /\ Returned(q2)
        /\ Cardinality(Ids(fut[q2].items)) = 2
        /\ Cardinality(Ids(collected)) = 2

\* C3 (as claimed): search_youtube_query(query, N) returns at most N records.
C3_AtMostN ==
    \A q \in SEARCH_QUERIES : Returned(q) => Len(fut[q].items) <= max_results

\* C4: a query whose request or item mapping raised returns an empty result
\* and no exception, whatever it had accumulated; and when the pipeline
\* returns, the records of every query that returned are in the result.
C4_FailedQueryIsEmpty ==
    /\ \A q \in SEARCH_QUERIES :
        failed[q] => fut[q].kind \in {"list", "set"} /\ fut[q].items = <<>>
    /\ cpc = "returned" =>
        \A q \in SEARCH_QUERIES : Returned(q) => Ids(fut[q].items) \subseteq Ids(collected)
    /\ cpc \in {"shutdown", "raised"} =>
        \E q \in SEARCH_QUERIES : InProcessed(q) /\ ~failed[q] /\ fut[q].kind = "exc"

\* C4's case: a query raised after a page was accumulated, another query
\* returned records, and the pipeline returned
C4_Witness ==
    /\ cpc = "returned"
    /\ \E q1, q2 \in SEARCH_QUERIES :
        /\ failed[q1] /\ videos[q1] # <<>>
        /\ Returned(q2) /\ fut[q2].items # <<>>
        /\ Ids(fut[q2].items) \subseteq Ids(collected)

\* the records merged so far, in the order the pipeline met them: the
\* futures in the order as_completed yielded them, each list in its own order
RECURSIVE MergedSoFar(_)
MergedSoFar(n) ==
    IF n = 0 THEN <<>> ELSE MergedSoFar(n - 1) \o fut[processed[n]].items
FirstWith(id, seq) ==
    seq[CHOOSE k \in DOMAIN seq :
            /\ seq[k].video_id = id
            /\ \A j \in 1..(k - 1) : seq[j].video_id # id]

\* C14: first seen wins: the record kept for a video_id, in the mapping at
\* any time and in the list run_collection_pipeline returns, is the first
\* record with that id in merge order (the earliest merged query, then the
\* earliest position in its list); no later record replaces or alters it.
C14_FirstSeenWins ==
    LET seen == MergedSoFar(Len(processed))
    IN  /\ \A m \in DOMAIN all_videos_map :
              all_videos_map[m] = FirstWith(all_videos_map[m].video_id, seen)
        /\ cpc = "returned" =>
              \A m \in DOMAIN collected :
                  collected[m] = FirstWith(collected[m].video_id, seen)

\* C14's case: the pipeline returned after two queries answered the same id
\* with different records, the query merged first with two different records
\* of that id; the first record of the query merged first was kept
C14_Witness ==
    /\ cpc = "returned"
    /\ Len(processed) = 2
    /\ \E a \in DOMAIN fut[processed[1]].items,
          b \in DOMAIN fut[processed[2]].items, m \in DOMAIN collected :
        /\ fut[processed[1]].items[a].video_id = fut[processed[2]].items[b].video_id
        /\ fut[processed[1]].items[a] # fut[processed[2]].items[b]
        /\ collected[m] = fut[processed[1]].items[a]
        /\ \A j \in 1..(a - 1) :
              fut[processed[1]].items[j].video_id # collected[m].video_id
        /\ \E c \in DOMAIN fut[processed[1]].items :
              /\ c > a
              /\ fut[processed[1]].items[c].video_id = collected[m].video_id
              /\ fut[processed[1]].items[c] # collected[m]

\* C15: the check-then-insert sequences on all_videos_map never overlap:
\* every change of the mapping is made in a step of the pipeline's own
\* thread, the merge of one yielded future, in which no query worker moves,
\* and it adds each id the mapping lacked once; at any time the mapping
\* holds every id merged so far, once.
C15_InsertionsExclusive ==
    /\ [](/\ Ids(all_videos_map) = Ids(MergedSoFar(Len(processed)))
          /\ NoTwoSameId(all_videos_map))
    /\ [][all_videos_map' # all_videos_map =>
            /\ cpc = "as_completed"
            /\ qpc' = qpc /\ videos' = videos /\ fut' = fut
            /\ \E q \in SEARCH_QUERIES :
                /\ ~InProcessed(q)
                /\ processed' = Append(processed, q)
                /\ Len(all_videos_map') = Len(all_videos_map)
                      + Cardinality(Ids(fut[q].items) \ Ids(all_videos_map))]_vars

\* C15's case: records were inserted while a query worker was still running
C15_Witness ==
    /\ all_videos_map # <<>>
    /\ \E q \in SEARCH_QUERIES : qpc[q] \in {"build", "while", "return"}

\* C16: every page request of search_youtube_query(query, N) asks for a
\* page size between 1 and 50 that is at most the number of records still
\* missing, N minus those accumulated; with N <= 0 no request is ever sent
\* and the list the call returns is empty.
C16_PageSize ==
    /\ sq_pc = "execute" =>
          /\ sq_fetch_count >= 1 /\ sq_fetch_count <= 50
          /\ sq_fetch_count <= sq_max_results - sq_len
    /\ sq_max_results <= 0 =>
          /\ sq_pc # "execute" /\ sq_fetch_count = 0
          /\ sq_ret \notin {"none", "raised"} => sq_ret = "list" /\ sq_len = 0

\* C16's case: a target above 50; the first request was cut to 50, the
\* request now in flight asks for what is still missing
C16_Witness ==
    /\ sq_max_results > 50
    /\ sq_pc = "execute"
    /\ sq_len >= 50
    /\ sq_fetch_count = sq_max_results - sq_len

\* C5 (as claimed): neither pipeline ever lets an exception out.
C5_NeverRaises == cpc # "raised" /\ apc # "raised"

(***************************************************************************)
(* Properties of the analysis run (checked under SpecAnalyze)              *)
(***************************************************************************)
Succeeded(i) == outcome[i].kind = "rec"
Count(seq, x) == Cardinality({k \in DOMAIN seq : seq[k] = x})
TheCollidingMapping ==
    CHOOSE ai \in AiMappings : "title" \in DOMAIN ai

\* C6: a record causes at most 3 remote calls in a run; when every attempt
\* ended in the backoff of a throttling signal, exactly 3 calls were issued
\* and analyze_single_video returned None, not an exception.
C6_AtMostThreeCalls ==
    \A i \in Tasks :
        /\ calls[i] <= 3
        /\ (tpc[i] = "done" /\ calls[i] > 0 /\ throttled[i] = calls[i])
              => calls[i] = 3 /\ outcome[i] = None

\* C6's case: the pipeline returned after a record was throttled three times
C6_Witness ==
    /\ apc = "returned"
    /\ \E i \in Tasks :
        /\ calls[i] = 3 /\ throttled[i] = 3
        /\ outcome[i] = None
        /\ i \in yielded

\* C7 (as claimed): once an attempt failed otherwise than by a throttling
\* signal of the remote call, the record is given up at once (no wait, no
\* further attempt) and None is returned.
C7_FatalStopsAtOnce ==
    \A i \in Tasks : fatal_seen[i] => tpc[i] = "done" /\ outcome[i] = None

C9_OnlySuccesses ==
    apc = "returned" =>
        /\ \A k \in DOMAIN results : results[k].kind = "rec"
        /\ \A i \in Tasks :
              Succeeded(i) =>
                Count(results, outcome[i])
                    = Cardinality({j \in Tasks : outcome[j] = outcome[i]})
        /\ \A k \in DOMAIN results : \E i \in Tasks : outcome[i] = results[k]

\* C9's case: two records, one succeeded and one failed, one output
C9_Witness ==
    /\ apc = "returned"
    /\ Len(video_list) = 2
    /\ \E i, j \in Tasks : Succeeded(i) /\ outcome[j] = None /\ calls[j] > 0
    /\ Len(results) = 1

\* C10 (as claimed): with one worker, the first remote call of a record
\* starts at least DELAY_SECONDS after the batch's previous remote call ended.
C10_PacingFloor ==
    MAX_WORKERS_ANALYSIS = 1 => (pace_gap = -1 \/ pace_gap >= DELAY_SECONDS)

\* C11: with one worker, run_analysis_pipeline over N records does not
\* return before N * DELAY_SECONDS have elapsed since it was called, whether
\* the records' calls succeeded or failed.
C11_ReturnNotBeforeNxD ==
    (MAX_WORKERS_ANALYSIS = 1 /\ apc = "returned")
        => elapsed >= Len(video_list) * DELAY_SECONDS

\* C11's case: the pipeline returned over two records, one of which failed
\* and one of which succeeded, after two pauses
C11_Witness ==
    /\ apc = "returned"
    /\ Len(video_list) = 2
    /\ \E i, j \in Tasks : Succeeded(i) /\ outcome[j] = None
    /\ elapsed >= 2 * DELAY_SECONDS

\* C12: at any time the number of records whose analyze_single_video is in
\* progress (between its start and its return, remote call outstanding or
\* backoff sleep included) is at most MAX_WORKERS_ANALYSIS; with one worker
\* no two remote calls are outstanding together.
C12_PoolBound ==
    /\ Cardinality(Running) <= MAX_WORKERS_ANALYSIS
    /\ MAX_WORKERS_ANALYSIS = 1
          => Cardinality({i \in Tasks : tpc[i] = "calling"}) <= 1

\* C12's case: a record waits in the queue while the worker is busy with
\* another one, in its remote call or in its backoff sleep
C12_Witness ==
    \E i, j \in Tasks : tpc[i] \in {"calling", "sleeping"} /\ tpc[j] = "queued"

RECURSIVE SumUpTo(_, _)
SumUpTo(seq, n) == IF n = 0 THEN 0 ELSE seq[n] + SumUpTo(seq, n - 1)

\* C13: the wait after the k-th throttled attempt of a record is
\* base_wait_time * k (30, 60, 90 seconds), taken before the worker does
\* anything else: until it is over the worker is in its sleep, and the
\* waits that are over have taken their time; a record throttled at all
\* three attempts has waited 30, 60 and 90 seconds when None is returned.
C13_LinearBackoff ==
    \A i \in Tasks :
        /\ Len(waits[i]) = throttled[i]
        /\ \A k \in DOMAIN waits[i] : waits[i][k] = base_wait_time * k
        /\ sleep_left[i] > 0 => tpc[i] = "sleeping"
        /\ tpc[i] = "sleeping" =>
              /\ throttled[i] = attempt[i] + 1
              /\ sleep_left[i] <= waits[i][throttled[i]]
        /\ attempt[i] <= Len(waits[i])
        /\ elapsed >= Min(Horizon, SumUpTo(waits[i], attempt[i]))
        /\ (tpc[i] = "done" /\ throttled[i] = max_retries)
              => waits[i] = <<30, 60, 90>> /\ attempt[i] = 3

\* C13's case: a record was throttled three times, waited three times and
\* was given up
C13_Witness ==
    \E i \in Tasks :
        /\ tpc[i] = "done" /\ outcome[i] = None
        /\ throttled[i] = 3
        /\ waits[i] = <<30, 60, 90>>
        /\ elapsed >= Min(Horizon, 180)

C17_RunCompletes == <>(sq_pc = "done")

InitCollect == CollectInit /\ AnalyzeIdle /\ SearchIdle
InitAnalyze == AnalyzeInit /\ CollectIdle /\ SearchIdle
InitSearch == SearchInit /\ CollectIdle /\ AnalyzeIdle

SpecCollect == InitCollect /\ [][CollectNext]_vars
SpecAnalyze == InitAnalyze /\ [][AnalyzeNext]_vars
SpecSearch == InitSearch /\ [][SearchNext]_vars
\* the same call when every remote call returns and the worker keeps running
FairSearch == InitSearch /\ [][SearchNext]_vars /\ WF_vars(SearchNext)

====
